---- MODULE Spec2Model ----
(***************************************************************************)
(* Model of crates/xaoc_utils/src/label.rs: the FNV-1a hashed, domain      *)
(* tagged labels (ConstLabel, Label) and the hashes_table registry that    *)
(* Label construction consults.                                            *)
(*                                                                         *)
(* A u64 is a sequence of 8 bytes, least significant first, so that the    *)
(* 64-bit wrapping arithmetic of the hash is computed exactly.  A          *)
(* &'static str is a record [addr, bytes]: the address of its storage and  *)
(* its content.                                                            *)
(***************************************************************************)
EXTENDS Integers, Sequences, FiniteSets, TLC

\* ------------------------------------------------------------- bounds
NumThreads == 2
MaxOps == 3

Threads == 1..NumThreads

\* ------------------------------------------------------ strings, domains

\* The Domain type parameters in use; TypeId::of::<Domain>() is the tag itself.
Domains == {"Tag", "Other"}

\* The string contents of the program, as UTF-8 bytes: "1" (the tests'
\* literal) and "8yn0iYCKYHlIj4-BwPqk", "GReLUrM4wMqfg9yzV3KQ", which have the
\* same FNV-1a 64-bit hash 0x4eac0c95540867e4.
Str1 == <<49>>
StrA == <<56, 121, 110, 48, 105, 89, 67, 75, 89, 72, 108, 73, 106, 52, 45, 66, 119, 80, 113, 107>>
StrB == <<71, 82, 101, 76, 85, 114, 77, 52, 119, 77, 113, 102, 103, 57, 121, 122, 86, 51, 75, 81>>
Literals == <<Str1, StrA, StrB>>
Contents == {Literals[k] : k \in DOMAIN Literals}

\* A string literal written at call site `site`: each site has its own storage.
\* The code each thread runs is one call site.
StaticStr(site, k) == [addr |-> <<"static", site, k>>, bytes |-> Literals[k]]

\* Box::leak(name.into_boxed_str()): the n-th leaked allocation.
Box_leak(n, bytes) == [addr |-> <<"heap", n, 0>>, bytes |-> bytes]

\* ------------------------------------------------------------- the hash

\* Bit k of a.
bit(a, k) == (a \div (2 ^ k)) % 2

\* a ^ b on bytes.
xor8(a, b) ==
    LET x(k) == ((bit(a, k) + bit(b, k)) % 2) * (2 ^ k)
    IN  x(0) + x(1) + x(2) + x(3) + x(4) + x(5) + x(6) + x(7)

\* The FNV-1a 64-bit offset basis 0xcbf29ce484222325.
FNV_OFFSET_BASIS == <<37, 35, 34, 132, 228, 156, 242, 203>>

\* h.wrapping_mul(0x100000001b3): h * 0x1b3 + (h << 40), modulo 2^64, byte by
\* byte with the carries.
wrapping_mul_prime(h) ==
    LET p(i) == h[i] * 435 + (IF i > 5 THEN h[i - 5] ELSE 0)
        v1 == p(1)
        v2 == p(2) + v1 \div 256
        v3 == p(3) + v2 \div 256
        v4 == p(4) + v3 \div 256
        v5 == p(5) + v4 \div 256
        v6 == p(6) + v5 \div 256
        v7 == p(7) + v6 \div 256
        v8 == p(8) + v7 \div 256
    IN  <<v1 % 256, v2 % 256, v3 % 256, v4 % 256,
          v5 % 256, v6 % 256, v7 % 256, v8 % 256>>

\* The loop over the bytes from byte i on, h the hash so far (a u64).
RECURSIVE fnv1a_fold(_, _, _)
fnv1a_fold(bytes, i, h) ==
    IF Len(h) = 8 /\ i <= Len(bytes)
    THEN fnv1a_fold(bytes, i + 1,
                    wrapping_mul_prime([h EXCEPT ![1] = xor8(h[1], bytes[i])]))
    ELSE h

\* The same loop started from 0 instead of the offset basis.
fnv1a_hash_no_basis(bytes) == fnv1a_fold(bytes, 1, <<0, 0, 0, 0, 0, 0, 0, 0>>)

\* const_fnv1a_hash::fnv1a_hash_str_64
fnv1a_hash_str_64(bytes) == fnv1a_fold(bytes, 1, FNV_OFFSET_BASIS)

\* The hash of every content of the program, computed once.
HashOf == [b \in Contents |-> fnv1a_hash_str_64(b)]

\* {:08x} of a u64: hexadecimal digits, most significant first, zero-padded to
\* a minimum width of 8 (digits as numbers 0..15).
RECURSIVE strip_zeros(_)
strip_zeros(digits) ==
    IF Len(digits) > 8 /\ digits[1] = 0 THEN strip_zeros(Tail(digits)) ELSE digits

fmt_08x(id) ==
    strip_zeros([i \in 1..16 |->
        LET byte == id[8 - ((i - 1) \div 2)]
        IN  IF i % 2 = 1 THEN byte \div 16 ELSE byte % 16])

\* ------------------------------------------------------------- the state

VARIABLES
    check_label_hashes, \* cfg(feature = "check_label_hashes"), fixed at build time
    pc,                 \* per thread: where it is inside a label operation
    op,                 \* per thread: the constructor that is running or has just run, and its locals
    HASHES,             \* per thread: the Lazy<Mutex<HashMap>> its intern call works on
    heap,               \* the number of strings leaked by Box::leak
    consts,             \* the ConstLabel values that exist
    labels,             \* the Label values that exist
    ret,                \* per thread: what its last operation returned
    calls,              \* per thread: the intern calls made by its current operation
    interned,           \* the intern calls that have returned, with what they returned
    nops                \* the number of operations started

vars == <<check_label_hashes, pc, op, HASHES, heap, consts, labels, ret, calls,
          interned, nops>>

NoOp == [fn |-> "none"]
NoRet == [kind |-> "none"]

\* No Lazy exists for the thread (it is not inside intern).
NoLazy == [alive |-> FALSE, lock |-> FALSE, map |-> <<>>]

\* A registry whose mutex starts out locked.
Lazy_new_locked == [alive |-> TRUE, lock |-> TRUE, map |-> <<>>]

\* once_cell::sync::Lazy::new(|| Mutex::new(HashMap::new())), forced: an
\* unlocked mutex around an empty map.
Lazy_new == [alive |-> TRUE, lock |-> FALSE, map |-> <<>>]

\* `HASHES` is a `const` item: every evaluation of the path expression HASHES
\* materialises a new temporary Lazy, which `&*HASHES` forces and which lives
\* until the end of the intern call that evaluated it.
HASHES_eval == Lazy_new

Init ==
    /\ check_label_hashes \in BOOLEAN
    /\ pc = [t \in Threads |-> "idle"]
    /\ op = [t \in Threads |-> NoOp]
    /\ HASHES = [t \in Threads |-> NoLazy]
    /\ heap = 0
    /\ consts = {}
    /\ labels = {}
    /\ ret = [t \in Threads |-> NoRet]
    /\ calls = [t \in Threads |-> <<>>]
    /\ interned = {}
    /\ nops = 0

\* ------------------------------------------------------ pure operations

\* ConstLabel::new
ConstLabel_new(domain, name) ==
    [domain |-> domain, id |-> HashOf[name.bytes], name |-> name]

\* Label { id, name, _marker }
Label(domain, id, name) == [domain |-> domain, id |-> id, name |-> name]

\* Label::id, Label::name
Label_id(self) == self.id
Label_name(self) == self.name

\* A clone that copies the name's content into storage of its own.
Label_clone_deep(self) == Label(self.domain, self.id, Box_leak(0, self.name.bytes))

\* impl Clone for Label
Label_clone(self) == Label(self.domain, self.id, self.name)

\* A comparison of the name references instead of the ids.
Label_eq_by_name(self, other) == self.name = other.name

\* impl PartialEq for Label
Label_eq(self, other) == self.id = other.id

\* impl Hash for Label: what is fed to the hasher
Label_hash(self) == self.id

\* &str != &str compares contents
str_ne(a, b) == a.bytes # b.bytes

\* The panic message of intern.
panic_message(id, name, stored) ==
    [fmt |-> "Duplicate hash value {:08x} for strings {:?} and {:?}",
     args |-> <<fmt_08x(id), name.bytes, stored.bytes>>]

\* A conversion that never checks.
From_never_interns(check) == FALSE

\* The cfg gates on the intern calls of From<ConstLabel> and of the
\* Cow::Borrowed arm (lines 55, 77); the Cow::Owned arm has none.
From_interns(check) == check
Borrowed_interns(check) == check
Owned_interns(check) == TRUE

\* The name a constructor stores, given its argument and what intern returned:
\* only the Cow::Owned arm uses intern's result.
Self_name(fn, name, returned) == IF fn = "Owned" THEN returned ELSE name

\* ------------------------------------------------------------ operations

\* A thread starts an operation.
Begin(t) ==
    /\ pc[t] = "idle"
    /\ nops < MaxOps
    /\ nops' = nops + 1

\* A constructor returns Self { id, name, _marker } to its caller.
Return(t, label) ==
    /\ labels' = labels \cup {label}
    /\ ret' = [ret EXCEPT ![t] = [kind |-> "Label", val |-> label]]
    /\ pc' = [pc EXCEPT ![t] = "idle"]

\* The locals of constructor fn, with what was true when it started: whether an
\* intern call for its (type_id, id) had returned (prior), and the contents of
\* the names of the labels of its (type_id, id) that existed (existing).
Frame(fn, type_id, id, name) ==
    [fn |-> fn, type_id |-> type_id, id |-> id, name |-> name,
     prior |-> \E r \in interned : r.type_id = type_id /\ r.id = id,
     existing |-> {l.name.bytes : l \in
                     {x \in labels : x.domain = type_id /\ x.id = id}},
     branch |-> "none", returned |-> name]

\* hashes_table::intern is entered from constructor fn (line 18): `&*HASHES`
\* is evaluated.  It is the first registry access of the operation.
intern_call(t, fn, type_id, id, name) ==
    /\ op' = [op EXCEPT ![t] = Frame(fn, type_id, id, name)]
    /\ HASHES' = [HASHES EXCEPT ![t] = HASHES_eval]
    /\ calls' = [calls EXCEPT ![t] =
                   <<[type_id |-> type_id, id |-> id, name |-> name]>>]
    /\ pc' = [pc EXCEPT ![t] = "lock"]
    /\ ret' = [ret EXCEPT ![t] = NoRet]
    /\ UNCHANGED labels

\* A constructor whose intern call is compiled out: it returns at once.
no_intern(t, fn, type_id, id, name) ==
    /\ Return(t, Label(type_id, id, Self_name(fn, name, name)))
    /\ calls' = [calls EXCEPT ![t] = <<>>]
    /\ op' = [op EXCEPT ![t] = Frame(fn, type_id, id, name)]
    /\ UNCHANGED HASHES

\* ConstLabel::new(name), lines 34-40.
ConstLabel_new_op(t) ==
    /\ Begin(t)
    /\ \E domain \in Domains, k \in DOMAIN Literals :
         LET c == ConstLabel_new(domain, StaticStr(t, k))
         IN  /\ consts' = consts \cup {c}
             /\ ret' = [ret EXCEPT ![t] = [kind |-> "ConstLabel", val |-> c]]
    /\ calls' = [calls EXCEPT ![t] = <<>>]
    /\ op' = [op EXCEPT ![t] = NoOp]
    /\ UNCHANGED <<check_label_hashes, pc, HASHES, heap, labels, interned>>

\* impl From<ConstLabel<Domain>> for Label<Domain> (and ConstLabel::label),
\* lines 54-56: up to the intern call, or to the end when it is compiled out.
From_ConstLabel(t) ==
    /\ Begin(t)
    /\ \E from \in consts :
         IF From_interns(check_label_hashes)
         THEN intern_call(t, "From", from.domain, from.id, from.name)
         ELSE no_intern(t, "From", from.domain, from.id, from.name)
    /\ UNCHANGED <<check_label_hashes, heap, consts, interned>>

\* Label::new(name) with name: &'static str (Cow::Borrowed), lines 73-78.
Label_new_borrowed(t) ==
    /\ Begin(t)
    /\ \E domain \in Domains, k \in DOMAIN Literals :
         LET name == StaticStr(t, k)
             id == HashOf[name.bytes]
         IN  IF Borrowed_interns(check_label_hashes)
             THEN intern_call(t, "Borrowed", domain, id, name)
             ELSE no_intern(t, "Borrowed", domain, id, name)
    /\ UNCHANGED <<check_label_hashes, heap, consts, interned>>

\* Label::new(name) with name: String (Cow::Owned), lines 73-82: the string is
\* leaked, then intern is called with the leaked reference.
Label_new_owned(t) ==
    /\ Begin(t)
    /\ \E domain \in Domains, bytes \in Contents :
         LET name == Box_leak(heap + 1, bytes)
             id == HashOf[bytes]
         IN  IF Owned_interns(check_label_hashes)
             THEN intern_call(t, "Owned", domain, id, name)
             ELSE no_intern(t, "Owned", domain, id, name)
    /\ heap' = heap + 1
    /\ UNCHANGED <<check_label_hashes, consts, interned>>

\* intern, line 19: hashes.lock().
intern_lock(t) ==
    /\ pc[t] = "lock"
    /\ ~HASHES[t].lock
    /\ HASHES' = [HASHES EXCEPT ![t].lock = TRUE]
    /\ pc' = [pc EXCEPT ![t] = "entry"]
    /\ UNCHANGED <<check_label_hashes, op, heap, consts, labels, ret, calls,
                   interned, nops>>

\* intern, lines 20-23: the match on _lock.entry((type_id, id)).  A panic
\* unwinds: the guard is dropped (parking_lot does not poison), then the Lazy.
intern_entry(t) ==
    /\ pc[t] = "entry"
    /\ LET key == <<op[t].type_id, op[t].id>>
           map == HASHES[t].map
           name == op[t].name
       IN  IF key \in DOMAIN map
           THEN IF str_ne(map[key], name)
                THEN /\ ret' = [ret EXCEPT ![t] =
                                  [kind |-> "panic",
                                   val |-> panic_message(op[t].id, name, map[key])]]
                     /\ op' = [op EXCEPT ![t].branch = "occupied"]
                     /\ HASHES' = [HASHES EXCEPT ![t] = NoLazy]
                     /\ pc' = [pc EXCEPT ![t] = "panicked"]
                ELSE /\ op' = [op EXCEPT ![t].branch = "occupied",
                                         ![t].returned = map[key]]
                     /\ pc' = [pc EXCEPT ![t] = "exit"]
                     /\ UNCHANGED <<HASHES, ret>>
           ELSE /\ HASHES' = [HASHES EXCEPT ![t].map = (key :> name) @@ map]
                /\ op' = [op EXCEPT ![t].branch = "vacant", ![t].returned = name]
                /\ pc' = [pc EXCEPT ![t] = "exit"]
                /\ UNCHANGED ret
    /\ UNCHANGED <<check_label_hashes, heap, consts, labels, calls, interned, nops>>

\* intern, line 24, and the constructor's tail (lines 57-61, 79-89): the guard
\* and the temporary Lazy are dropped, intern returns, Self is built.
intern_exit(t) ==
    /\ pc[t] = "exit"
    /\ HASHES' = [HASHES EXCEPT ![t] = NoLazy]
    /\ interned' = interned \cup
         {[type_id |-> op[t].type_id, id |-> op[t].id, name |-> op[t].name,
           returned |-> op[t].returned]}
    /\ Return(t, Label(op[t].type_id, op[t].id,
                       Self_name(op[t].fn, op[t].name, op[t].returned)))
    /\ UNCHANGED <<check_label_hashes, op, heap, consts, calls, nops>>

\* Label::clone / Copy, lines 104-113.
Label_clone_op(t) ==
    /\ Begin(t)
    /\ \E self \in labels :
         /\ labels' = labels \cup {Label_clone(self)}
         /\ ret' = [ret EXCEPT ![t] =
                      [kind |-> "clone", val |-> Label_clone(self), self |-> self]]
    /\ calls' = [calls EXCEPT ![t] = <<>>]
    /\ op' = [op EXCEPT ![t] = NoOp]
    /\ UNCHANGED <<check_label_hashes, pc, HASHES, heap, consts, interned>>

\* Label::id, Label::name, ==, Hash::hash, lines 92-125: read-only.
Accessor(t, kind, val) ==
    /\ ret' = [ret EXCEPT ![t] = [kind |-> kind, val |-> val]]
    /\ calls' = [calls EXCEPT ![t] = <<>>]
    /\ op' = [op EXCEPT ![t] = NoOp]
    /\ UNCHANGED <<check_label_hashes, pc, HASHES, heap, consts, labels, interned>>

Label_id_op(t) ==
    Begin(t) /\ \E self \in labels : Accessor(t, "id", Label_id(self))

Label_name_op(t) ==
    Begin(t) /\ \E self \in labels : Accessor(t, "name", Label_name(self))

\* A PartialEq implemented for a right-hand side of any namespace.
PartialEq_any_Rhs(self, other) == self.domain \in Domains /\ other.domain \in Domains

\* impl<Domain> PartialEq for Label<Domain>: the right-hand side type is Self,
\* the only == the program can contain takes two labels of one namespace.
PartialEq_Rhs(self, other) == self.domain = other.domain

Label_eq_op(t) ==
    /\ Begin(t)
    /\ \E self \in labels, other \in labels :
         /\ PartialEq_Rhs(self, other)
         /\ Accessor(t, "eq", [self |-> self, other |-> other,
                               result |-> Label_eq(self, other)])

Label_hash_op(t) ==
    Begin(t) /\ \E self \in labels : Accessor(t, "hash", Label_hash(self))

Next ==
    \E t \in Threads :
        \/ ConstLabel_new_op(t)
        \/ From_ConstLabel(t)
        \/ Label_new_borrowed(t)
        \/ Label_new_owned(t)
        \/ intern_lock(t)
        \/ intern_entry(t)
        \/ intern_exit(t)
        \/ Label_clone_op(t)
        \/ Label_id_op(t)
        \/ Label_name_op(t)
        \/ Label_eq_op(t)
        \/ Label_hash_op(t)

Spec == Init /\ [][Next]_vars

\* A thread inside intern keeps running: the operating system schedules every
\* runnable thread, and a thread blocked in lock() runs once the mutex is free.
FairSpec ==
    /\ Spec
    /\ \A t \in Threads :
         /\ WF_vars(intern_lock(t))
         /\ WF_vars(intern_entry(t))
         /\ WF_vars(intern_exit(t))

\* ------------------------------------------------------------- the claims

\* The entries of the registry map thread t's intern call works on, and the
\* entries of every registry map that exists.
Entries(t) ==
    {[key |-> k, name |-> HASHES[t].map[k]] : k \in DOMAIN HASHES[t].map}
Registry == UNION {Entries(t) : t \in Threads}

SameKey(r1, r2) == r1.type_id = r2.type_id /\ r1.id = r2.id

\* Two contents do not collide: equal hashes only for equal contents.
NonColliding(a, b) == HashOf[a] = HashOf[b] => a = b

\* Thread t's last operation was a constructor, and it has returned its label.
Constructed(t) == pc[t] = "idle" /\ op[t].fn # "none" /\ ret[t].kind = "Label"

\* C1: with collision checking enabled, the registry holds at most one name
\* per (namespace, hash) key, and an entry, once created, is never removed and
\* its name never changes.
C1_EntriesAreKept ==
    [][check_label_hashes =>
         /\ \A e1, e2 \in Registry' :
              e1.key = e2.key => e1.name.bytes = e2.name.bytes
         /\ \A e \in Registry : e \in Registry']_vars

\* C2: with collision checking enabled, a construction for (N, b) that starts
\* when a label for (N, a) exists, a and b of different content and equal hash,
\* does not return a label: it panics, and the message holds the hash and both
\* strings.
C2_LaterCollisionAborts ==
    \A t \in Threads :
        (/\ check_label_hashes
         /\ op[t].fn # "none"
         /\ \E a \in op[t].existing : a # op[t].name.bytes)
        => /\ pc[t] \notin {"exit", "idle"}
           /\ pc[t] = "panicked" =>
                /\ ret[t].kind = "panic"
                /\ ret[t].val.args[1] = fmt_08x(op[t].id)
                /\ ret[t].val.args[2] = op[t].name.bytes
                /\ ret[t].val.args[3] \in op[t].existing \ {op[t].name.bytes}

\* C3: the registry is one map for the process: an intern call for (N, h) that
\* starts after an intern call for (N, h) has returned finds the entry occupied.
C3_LaterCallFindsEntry ==
    \A t \in Threads :
        (op[t].fn # "none" /\ op[t].prior) => op[t].branch # "vacant"

\* C4: with collision checking enabled, under every interleaving no two intern
\* calls for the same (namespace, hash) with names of different content both
\* return normally.
C4_OneNameWinsTheRace ==
    check_label_hashes =>
        \A r1, r2 \in interned :
            SameKey(r1, r2) => r1.name.bytes = r2.name.bytes

\* C5: under every interleaving, the intern calls for the same (namespace,
\* hash, name content) all return the same canonical reference, and none panics.
C5_SameCanonicalReference ==
    /\ \A r1, r2 \in interned :
         (SameKey(r1, r2) /\ r1.name.bytes = r2.name.bytes)
         => r1.returned = r2.returned
    /\ \A t \in Threads :
         pc[t] = "panicked" => ret[t].val.args[2] # ret[t].val.args[3]

\* C6: with collision checking enabled, the labels of one (namespace, content),
\* by whichever path they were built, hold the same name storage, the
\* canonical reference of the registry.
C6_LabelsShareCanonicalName ==
    check_label_hashes =>
        \A l1, l2 \in labels :
            (l1.domain = l2.domain /\ l1.name.bytes = l2.name.bytes)
            => l1.name.addr = l2.name.addr

\* C7: with collision checking enabled, in every state, for every label that
\* exists the registry has an entry for (namespace, id) whose name has the
\* content of the label's name.
C7_LabelsAreRegistered ==
    check_label_hashes =>
        \A l \in labels :
            \E e \in Registry :
                e.key = <<l.domain, l.id>> /\ e.name.bytes = l.name.bytes

\* C8: with collision checking disabled, no label operation accesses the
\* registry, takes its lock or panics.
C8_DisabledIsLocal ==
    ~check_label_hashes =>
        \A t \in Threads :
            calls[t] = <<>> /\ ~HASHES[t].alive /\ pc[t] = "idle"

\* C9: with collision checking enabled, every constructor (From<ConstLabel>,
\* Label::new borrowed, Label::new owned) has made exactly one intern call, for
\* (namespace, Hash(name), name), when it returns its label, every label that
\* exists went through an intern call that returned, and ConstLabel::new makes
\* no intern call.
C9_OneInternPerConstruction ==
    check_label_hashes =>
        /\ \A t \in Threads :
             Constructed(t) =>
                /\ Len(calls[t]) = 1
                /\ calls[t][1].type_id = ret[t].val.domain
                /\ calls[t][1].id = HashOf[ret[t].val.name.bytes]
                /\ calls[t][1].name.bytes = ret[t].val.name.bytes
                /\ calls[t][1].name = op[t].name
        /\ \A l \in labels :
             \E r \in interned :
                r.type_id = l.domain /\ r.id = l.id /\ r.name.bytes = l.name.bytes
        /\ \A t \in Threads : ret[t].kind = "ConstLabel" => calls[t] = <<>>

\* C9's case: with collision checking enabled, a label built from a ConstLabel
\* and a label built from an owned string have been returned.
C9_Witness ==
    /\ check_label_hashes
    /\ \E t1, t2 \in Threads :
         /\ Constructed(t1) /\ op[t1].fn = "From"
         /\ Constructed(t2) /\ op[t2].fn = "Owned"

\* C10: for two labels of one namespace whose contents do not collide, built
\* by any paths: they are equal iff the contents are equal; equal labels have
\* equal ids and names of equal content, unequal labels have different ids and
\* names of different content; and no construction panics unless its name
\* collides with the stored one.
C10_EqualIffSameContent ==
    /\ \A l1, l2 \in labels :
         (l1.domain = l2.domain /\ NonColliding(l1.name.bytes, l2.name.bytes))
         => /\ Label_eq(l1, l2) <=> (l1.name.bytes = l2.name.bytes)
            /\ Label_eq(l1, l2) =>
                 /\ Label_id(l1) = Label_id(l2)
                 /\ Label_name(l1).bytes = Label_name(l2).bytes
            /\ ~Label_eq(l1, l2) =>
                 /\ Label_id(l1) # Label_id(l2)
                 /\ Label_name(l1).bytes # Label_name(l2).bytes
    /\ \A t \in Threads :
         ret[t].kind = "eq" =>
            LET a == ret[t].val.self.name.bytes
                b == ret[t].val.other.name.bytes
            IN  NonColliding(a, b) => (ret[t].val.result <=> (a = b))
    /\ \A t \in Threads :
         pc[t] = "panicked" =>
            ~NonColliding(ret[t].val.args[2], ret[t].val.args[3])

\* C10's case: == has been evaluated, and found true, on two labels of equal
\* content built by different paths (one name a literal, the other a leaked
\* string).
C10_Witness ==
    /\ \E t \in Threads :
         /\ ret[t].kind = "eq"
         /\ ret[t].val.result
         /\ ret[t].val.self.name.addr # ret[t].val.other.name.addr
         /\ ret[t].val.self.name.addr[1] # ret[t].val.other.name.addr[1]

\* The operations that only read a label: clone, id, name, ==, hash.
ReadOnlyKinds == {"clone", "id", "name", "eq", "hash"}

\* This step is thread t running one of the read-only operations.
ReadOnlyStep(t) ==
    /\ nops' = nops + 1
    /\ pc[t] = "idle" /\ pc' = pc
    /\ ret'[t].kind \in ReadOnlyKinds
    /\ \A u \in Threads \ {t} : ret'[u] = ret[u]

\* C11: clone, id(), name(), == and hashing of a label leave every registry
\* map and its lock as they were and make no intern call, and the clone has
\* the id and the very name reference (address and content) of the original.
C11_ReadOnlyOperationsAreLocal ==
    [][\A t \in Threads :
         ReadOnlyStep(t) =>
            /\ HASHES' = HASHES
            /\ interned' = interned
            /\ heap' = heap
            /\ calls'[t] = <<>>
            /\ ret'[t].kind = "clone" =>
                 /\ ret'[t].val.id = ret'[t].self.id
                 /\ ret'[t].val.name = ret'[t].self.name]_vars

\* C11's case: a label whose name was leaked has been cloned while another
\* thread is inside intern with its registry map locked.
C11_Witness ==
    \E t, u \in Threads :
        /\ ret[t].kind = "clone"
        /\ ret[t].self.name.addr[1] = "heap"
        /\ HASHES[u].lock

\* Thread t is inside a construction call.
Constructing(t) == pc[t] \in {"lock", "entry", "exit"}

\* Thread t, inside a construction call, can take its next step: it is past
\* lock(), or the mutex it is about to lock is free.
CanStep(t) == pc[t] \in {"entry", "exit"} \/ (pc[t] = "lock" /\ ~HASHES[t].lock)

\* C12: under fair scheduling every construction call that has started
\* eventually returns a label or panics, and no state is a deadlock: while a
\* thread is inside a construction call, one of those threads can step.
C12_ConstructionTerminates ==
    /\ \A t \in Threads :
         Constructing(t) ~> (pc[t] \in {"idle", "panicked"})
    /\ []((\E t \in Threads : Constructing(t))
          => \E t \in Threads : Constructing(t) /\ CanStep(t))

\* C12's case: two threads are inside intern at once, one of them for a name
\* that collides with the other's.
C12_Witness ==
    \E t, u \in Threads :
        /\ t # u
        /\ Constructing(t) /\ Constructing(u)
        /\ op[t].type_id = op[u].type_id /\ op[t].id = op[u].id
        /\ op[t].name.bytes # op[u].name.bytes

\* Thread t is between acquiring a registry lock and releasing it.
InCriticalSection(t) == pc[t] \in {"entry", "exit"}

\* C14: the lookup and insert of intern are one mutually exclusive critical
\* section: at most one thread is between lock() and the release of the
\* guard, and a registry lock is held only by a thread inside intern.
C14_OneThreadInCriticalSection ==
    /\ \A t, u \in Threads :
         (InCriticalSection(t) /\ InCriticalSection(u)) => t = u
    /\ \A t \in Threads : HASHES[t].lock => InCriticalSection(t)

\* C15: an intern call for (N, h, name) that starts when an intern call for
\* (N, h) with a name of the same content has returned finds the entry,
\* changes nothing, and returns the reference stored by the first call, not
\* its own argument.
C15_RepeatedInternIsIdempotent ==
    \A t \in Threads :
        (/\ pc[t] = "exit"
         /\ op[t].prior
         /\ \E r \in interned :
              /\ r.type_id = op[t].type_id /\ r.id = op[t].id
              /\ r.name.bytes = op[t].name.bytes)
        => /\ op[t].branch = "occupied"
           /\ \E r \in interned :
                /\ r.type_id = op[t].type_id /\ r.id = op[t].id
                /\ r.returned = op[t].returned

\* The (namespace, hash) keys for which an entry has been created, and the
\* Cow::Owned constructions still under way (whose entry may yet be created).
KeysRegistered == {<<r.type_id, r.id>> : r \in interned}
OwnedUnderWay == {t \in Threads : Constructing(t) /\ op[t].fn = "Owned"}

\* C16: an owned string is leaked only when it is newly inserted, so the
\* number of leaked strings is at most the number of registry entries created.
C16_LeaksBoundedByEntries ==
    heap <= Cardinality(KeysRegistered) + Cardinality(OwnedUnderWay)

\* C18: once name a has been registered under one namespace and a name b of
\* different content and equal hash under another, neither call having
\* panicked, the registry holds an entry for each of the two keys, each with
\* its own name.
C18_EntriesPerNamespace ==
    /\ \A t \in Threads : pc[t] # "panicked"
    /\ \A r1, r2 \in interned :
         (/\ r1.type_id # r2.type_id
          /\ r1.id = r2.id
          /\ r1.name.bytes # r2.name.bytes)
         => /\ \E e \in Registry :
                 e.key = <<r1.type_id, r1.id>> /\ e.name.bytes = r1.name.bytes
            /\ \E e \in Registry :
                 e.key = <<r2.type_id, r2.id>> /\ e.name.bytes = r2.name.bytes

FNV1a64 ==
    [b \in Contents |->
        IF b = Str1 THEN <<252, 154, 1, 134, 76, 172, 99, 175>>
                    ELSE <<228, 103, 8, 84, 149, 12, 172, 78>>]

\* C19: every ConstLabel, every Label (a clone included) and every label under
\* construction has id = Hash(name), Hash being the FNV-1a 64-bit hash of the
\* bytes of the name.
C19_IdIsHashOfName ==
    /\ \A c \in consts :
         c.id = HashOf[c.name.bytes] /\ c.id = FNV1a64[c.name.bytes]
    /\ \A l \in labels :
         l.id = HashOf[l.name.bytes] /\ l.id = FNV1a64[l.name.bytes]
    /\ \A t \in Threads :
         /\ Constructing(t) => op[t].id = FNV1a64[op[t].returned.bytes]
         /\ ret[t].kind = "clone" =>
              ret[t].val.id = FNV1a64[ret[t].val.name.bytes]

\* C19's case: a ConstLabel, a label whose name is a leaked string, and a clone
\* of such a label exist.
C19_Witness ==
    /\ consts # {}
    /\ \E l \in labels : l.name.addr[1] = "heap" /\ l.name.bytes # Str1
    /\ \E t \in Threads :
         ret[t].kind = "clone" /\ ret[t].val.name.addr[1] = "heap"

====
